---- MODULE Spec2Model ----
(***************************************************************************)
(* Shiv Furniture ERP: transactional documents (purchase order, vendor     *)
(* bill, sales order, invoice), their line pricing, the cost-center rule   *)
(* engine, payments and payment reconciliation, as implemented by the     *)
(* Next.js route handlers over the Prisma store.                           *)
(*                                                                         *)
(* Money is counted in hundredths of a currency unit, so that the code's   *)
(* lineSubtotal * (taxRate / 100) is exact for whole-number inputs: a     *)
(* stored amount a stands for a/100.  Binary floating point rounding and   *)
(* the column precision of the store are not modelled.                     *)
(***************************************************************************)
EXTENDS Integers, Sequences, FiniteSets, TLC

None == "None"

(***************************************************************************)
(* Bounds of the model.                                                    *)
(***************************************************************************)
MaxRequests == 2
MaxDocs == 5
MaxPayments == 3
MaxInFlight == 2
MaxConcRequests == 2
MaxRuns == 2

(***************************************************************************)
(* Generic helpers.                                                        *)
(***************************************************************************)
RECURSIVE SumSeq(_)
SumSeq(s) == IF s = <<>> THEN 0 ELSE Head(s) + SumSeq(Tail(s))

MapSeq(s, f(_)) == [i \in 1..Len(s) |-> f(s[i])]

(***************************************************************************)
(* lib/utils: parseDecimal.  A number is returned as it is; anything that  *)
(* is neither a number, a string nor a Decimal becomes 0.                  *)
(***************************************************************************)
parseDecimal(value) == IF value \in Int THEN value ELSE 0

(***************************************************************************)
(* lib/utils: getNextSequence.  The row is incremented and read back in    *)
(* one statement; the issued number is the value before the increment,     *)
(* written in decimal, left-padded with "0" to the row's padding and       *)
(* prefixed.                                                               *)
(***************************************************************************)
RECURSIVE toString(_)
toString(n) ==
  IF n < 10 THEN <<n>> ELSE Append(toString(n \div 10), n % 10)

RECURSIVE padStart(_, _, _)
padStart(s, targetLength, fill) ==
  IF Len(s) >= targetLength THEN s
  ELSE padStart(<<fill>> \o s, targetLength, fill)

SeqPrefix == [purchase_order |-> "PO", vendor_bill |-> "BILL",
              sales_order |-> "SO", invoice |-> "INV", payment |-> "PAY"]
SeqPadding == 5
SeedNextNumber == 1001

SequenceNames == DOMAIN SeqPrefix

FormatNumber(name, nextNumber) ==
  [prefix |-> SeqPrefix[name],
   number |-> padStart(toString(nextNumber - 1), SeqPadding, 0)]

getNextSequence_NoIncrement(seqs, sequenceName) ==
  [sequences |-> seqs, id |-> FormatNumber(sequenceName, seqs[sequenceName] + 1)]

\* the row after the update, and the identifier built from it
getNextSequence(seqs, sequenceName) ==
  LET updated == [seqs EXCEPT ![sequenceName] = @ + 1]
  IN [sequences |-> updated,
      id |-> FormatNumber(sequenceName, updated[sequenceName])]

(***************************************************************************)
(* Master data: products and the rules that assign cost centers.  products *)
(* is the product table, rules the autoAnalyticalRule table in insertion   *)
(* order, resolved the result of the last getAnalyticalAccountForProduct   *)
(* call made since the rule table was last written, applied the lines      *)
(* given to and returned by the last applyAutoAnalyticalToLines call made  *)
(* since then.  budgets is the budget table, revisions the budgetRevision  *)
(* table in insertion order.                                               *)
(***************************************************************************)
VARIABLES products, rules, resolved, applied, budgets, revisions

masterData == <<products, rules, resolved, applied, budgets, revisions>>

NoApplied == [lines |-> <<>>, result |-> <<>>]

\* Production and Sales budgets of the current year: no revised amount
SeedBudgets ==
  << [amount |-> 5000000, revisedSet |-> FALSE, revisedAmount |-> 0,
      isActive |-> TRUE],
     [amount |-> 2000000, revisedSet |-> FALSE, revisedAmount |-> 0,
      isActive |-> TRUE] >>

NoResult == [productId |-> None, analyticalAccountId |-> None]

ToLowerChar(c) ==
  CASE c = "T" -> "t" [] c = "D" -> "d" [] c = "W" -> "w" [] c = "E" -> "e"
    [] OTHER -> c

toLowerCase(s) == MapSeq(s, ToLowerChar)

includes(s, sub) ==
  \E i \in 0..(Len(s) - Len(sub)) :
     \A j \in 1..Len(sub) : s[i + j] = sub[j]

\* products[0] Teak Wood, products[2] Executive Office Desk,
\* products[4] Dining Table: each has a default cost center.
Products ==
  [RM001 |-> [analyticalAccountId |-> "PROD", category |-> "RAW_MATERIAL",
              name |-> <<"T", "e", "a", "k">>],
   FG001 |-> [analyticalAccountId |-> "SALES", category |-> "FINISHED_GOODS",
              name |-> <<"D", "e", "s", "k">>],
   FG003 |-> [analyticalAccountId |-> "SALES", category |-> "FINISHED_GOODS",
              name |-> <<"T", "a", "b", "l", "e">>]]

ProductIds == DOMAIN products
NoSuchProduct == "NOPRODUCT"

\* the seeded rules, in insertion order; a rule row is active unless a
\* DELETE request has switched it off
Rules ==
  << [name |-> "Raw Materials to Production", productCategory |-> "RAW_MATERIAL",
      productNameContains |-> None, analyticalAccountId |-> "PROD", priority |-> 1,
      isActive |-> TRUE],
     [name |-> "Finished Goods to Sales", productCategory |-> "FINISHED_GOODS",
      productNameContains |-> None, analyticalAccountId |-> "SALES", priority |-> 2,
      isActive |-> TRUE],
     [name |-> "Consumables to Administration", productCategory |-> "CONSUMABLES",
      productNameContains |-> None, analyticalAccountId |-> "ADMIN", priority |-> 3,
      isActive |-> TRUE] >>

\* orders in which the rows numbered by idx can be listed
Orderings(idx) ==
  {f \in [1..Cardinality(idx) -> idx] :
     \A i, j \in 1..Cardinality(idx) : f[i] = f[j] => i = j}

findMany_Unordered(table) ==
  LET active == {i \in 1..Len(table) : table[i].isActive}
  IN {[k \in 1..Cardinality(active) |-> table[f[k]]] : f \in Orderings(active)}

\* autoAnalyticalRule.findMany({where: {isActive: true}, orderBy:
\* {priority: 'asc'}}): the active rows by ascending priority; rows of
\* equal priority come in an order the store chooses.
findMany(table) ==
  LET active == {i \in 1..Len(table) : table[i].isActive}
  IN {[k \in 1..Cardinality(active) |-> table[f[k]]] :
        f \in {g \in Orderings(active) :
                 \A i, j \in 1..Cardinality(active) :
                    i < j => table[g[i]].priority <= table[g[j]].priority}}

RuleMatches(rule, category, name) ==
  \/ rule.productCategory # None /\ category = rule.productCategory
  \/ /\ rule.productNameContains # None
     /\ includes(toLowerCase(name), toLowerCase(rule.productNameContains))

RECURSIVE FirstMatch(_, _, _)
FirstMatch(found, category, name) ==
  IF found = <<>> THEN None
  ELSE IF RuleMatches(Head(found), category, name)
       THEN Head(found).analyticalAccountId
       ELSE FirstMatch(Tail(found), category, name)

ResolveWith_RulesFirst(found, productId) ==
  LET exists == productId \in ProductIds
      product == products[productId]
      byRule == FirstMatch(found,
                           IF exists THEN product.category ELSE None,
                           IF exists THEN product.name ELSE <<>>)
  IN IF byRule # None THEN byRule
     ELSE IF exists THEN product.analyticalAccountId ELSE None

\* getAnalyticalAccountForProduct, given the rows that findMany returns
ResolveWith(found, productId) ==
  LET exists == productId \in ProductIds
      product == products[productId]
  IN IF exists /\ product.analyticalAccountId # None
     THEN product.analyticalAccountId
     ELSE FirstMatch(found,
                     IF exists THEN product.category ELSE None,
                     IF exists THEN product.name ELSE <<>>)

getAnalyticalAccountForProduct(productId) ==
  ResolveWith(CHOOSE found \in findMany(rules) : TRUE, productId)

applyAutoAnalyticalToLines_Overwrite(lines) ==
  MapSeq(lines, LAMBDA line :
    [line EXCEPT !.analyticalAccountId =
                    getAnalyticalAccountForProduct(line.productId)])

applyAutoAnalyticalToLines(lines) ==
  MapSeq(lines, LAMBDA line :
    IF line.analyticalAccountId # None THEN line
    ELSE [line EXCEPT !.analyticalAccountId =
                         getAnalyticalAccountForProduct(line.productId)])

(***************************************************************************)
(* Line pricing, as every document POST and PUT does it.                   *)
(***************************************************************************)
LineSubtotal(line) == parseDecimal(line.quantity) * parseDecimal(line.unitPrice) * 100

LineTax_PerUnit(line) ==
  parseDecimal(line.unitPrice) * parseDecimal(line.taxRate)

LineTax(line) ==
  parseDecimal(line.quantity) * parseDecimal(line.unitPrice) * parseDecimal(line.taxRate)

PricedLine(line) ==
  [productId |-> line.productId,
   quantity |-> line.quantity,
   unitPrice |-> line.unitPrice,
   taxRate |-> line.taxRate,
   taxAmount |-> LineTax(line),
   lineTotal |-> LineSubtotal(line) + LineTax(line),
   analyticalAccountId |-> line.analyticalAccountId]

PriceLines(linesWithAnalytical) ==
  LET lines == MapSeq(linesWithAnalytical, PricedLine)
      subtotal == SumSeq(MapSeq(linesWithAnalytical, LineSubtotal))
      taxAmount == SumSeq(MapSeq(linesWithAnalytical, LineTax))
  IN [lines |-> lines, subtotal |-> subtotal, taxAmount |-> taxAmount,
      totalAmount |-> subtotal + taxAmount]

(***************************************************************************)
(* The store.  docs is the list of documents of all four kinds (a          *)
(* document's id is its index), payments the set of payment rows,          *)
(* sequences the nextNumber of every sequence row.                         *)
(***************************************************************************)
VARIABLES docs, payments, sequences, nextPaymentId, inflight, lastReq, nreq

vars == <<docs, payments, sequences, nextPaymentId, inflight, lastReq, nreq,
         products, rules, resolved, applied, budgets, revisions>>

Store == [docs |-> docs, payments |-> payments, sequences |-> sequences,
          nextPaymentId |-> nextPaymentId]

DocKinds == {"purchase_order", "vendor_bill", "sales_order", "invoice"}
PayableKinds == {"vendor_bill", "invoice"}
CreatableKinds == {"vendor_bill", "sales_order", "invoice"}

\* members of the status enums that the handlers and the seed name
StatusEnum(kind) ==
  IF kind \in PayableKinds
  THEN {"DRAFT", "POSTED", "PARTIALLY_PAID", "PAID", "CANCELLED"}
  ELSE {"DRAFT", "CONFIRMED", "CANCELLED"}

SeedLine(productId, quantity, unitPrice, taxAmount, lineTotal, account) ==
  [productId |-> productId, quantity |-> quantity, unitPrice |-> unitPrice,
   taxRate |-> 18, taxAmount |-> taxAmount, lineTotal |-> lineTotal,
   analyticalAccountId |-> account]

SeedDoc(kind, contactId, orderId, status, subtotal, paidAmount, lines) ==
  [kind |-> kind, number |-> FormatNumber(kind, SeedNextNumber + 1),
   contactId |-> contactId, orderId |-> orderId, status |-> status,
   subtotal |-> subtotal * 100, taxAmount |-> subtotal * 18,
   totalAmount |-> subtotal * 100 + subtotal * 18,
   paidAmount |-> paidAmount, lines |-> lines]

SeedOrderLines == << SeedLine("RM001", 10, 2500, 450000, 2950000, "PROD") >>

SeedSaleLines ==
  << SeedLine("FG001", 2, 25000, 900000, 5900000, "SALES"),
     SeedLine("FG003", 1, 42000, 756000, 4956000, "SALES") >>

\* PO-01001, BILL-01001, SO-01001, INV-01001 and the payment PAY-01001
SeedDocs ==
  << SeedDoc("purchase_order", "V1", 0, "CONFIRMED", 25000, 0, SeedOrderLines),
     SeedDoc("vendor_bill", "V1", 1, "POSTED", 25000, 0, SeedOrderLines),
     SeedDoc("sales_order", "C1", 0, "CONFIRMED", 97000, 0, SeedSaleLines),
     SeedDoc("invoice", "C1", 3, "PARTIALLY_PAID", 97000, 5000000, SeedSaleLines) >>

SeedPayments ==
  { [id |-> 1, invoiceId |-> 4, vendorBillId |-> 0, amount |-> 5000000] }

SeedSequences == [n \in SequenceNames |-> SeedNextNumber]

DocExists(S, id) == id \in 1..Len(S.docs)

DocOfKind(S, id, kind) == DocExists(S, id) /\ S.docs[id].kind = kind

\* the payments relation of a document: payment rows whose invoiceId
\* (for an invoice) or vendorBillId (for a bill) is the document
LinkField(kind, p) == IF kind = "invoice" THEN p.invoiceId ELSE p.vendorBillId

PaymentsOf(pays, kind, id) == {p \in pays : LinkField(kind, p) = id}

RECURSIVE TotalPaid(_)
TotalPaid(pays) ==
  IF pays = {} THEN 0
  ELSE LET p == CHOOSE q \in pays : TRUE
       IN parseDecimal(p.amount) + TotalPaid(pays \ {p})

(***************************************************************************)
(* Payment reconciliation: the status chosen by the routine of             *)
(* POST /api/payments and by the one of DELETE /api/payments/[id].         *)
(***************************************************************************)
PaymentStatusOnCreate_StepDown(status, totalPaid, totalAmount) ==
  IF totalPaid >= totalAmount THEN "PAID"
  ELSE IF totalPaid > 0 THEN "PARTIALLY_PAID"
  ELSE IF status = "PAID" THEN "PARTIALLY_PAID"
  ELSE IF status = "PARTIALLY_PAID" THEN "POSTED"
  ELSE status

PaymentStatusOnCreate(status, totalPaid, totalAmount) ==
  IF totalPaid >= totalAmount THEN "PAID"
  ELSE IF totalPaid > 0 THEN "PARTIALLY_PAID"
  ELSE IF status = "PAID" \/ status = "PARTIALLY_PAID" THEN "POSTED"
  ELSE status

PaymentStatusOnDelete_ZeroIsPartial(status, totalPaid, totalAmount) ==
  IF totalPaid >= totalAmount THEN "PAID"
  ELSE IF totalPaid >= 0 THEN "PARTIALLY_PAID"
  ELSE "POSTED"

PaymentStatusOnDelete(status, totalPaid, totalAmount) ==
  IF totalPaid >= totalAmount THEN "PAID"
  ELSE IF totalPaid > 0 THEN "PARTIALLY_PAID"
  ELSE "POSTED"

PaymentStatus(variant, status, totalPaid, totalAmount) ==
  IF variant = "create"
  THEN PaymentStatusOnCreate(status, totalPaid, totalAmount)
  ELSE PaymentStatusOnDelete(status, totalPaid, totalAmount)

(***************************************************************************)
(* Requests.  A request is a handler invocation: its inputs, the position  *)
(* pc it has reached (every await on the store is one step), the values    *)
(* it has read so far, and its response code once pc = "done".             *)
(***************************************************************************)
NoNumber == [prefix |-> "", number |-> <<>>]

NoLoc == [number |-> NoNumber, found |-> FALSE, status |-> None,
          totalPaid |-> 0, totalAmount |-> 0, invoiceId |-> 0, vendorBillId |-> 0]

Admin == [role |-> "ADMIN", contactId |-> None]
Customer == [role |-> "CUSTOMER", contactId |-> "C1"]

NoBody == [linesKind |-> "none", lines |-> <<>>, status |-> None, contactId |-> None,
           orderId |-> 0, type |-> None, invoiceId |-> 0, vendorBillId |-> 0,
           amount |-> 0]

Req(op, kind, id, user, body) ==
  [op |-> op, kind |-> kind, id |-> id, user |-> user, body |-> body,
   pc |-> "start", res |-> 0, loc |-> NoLoc]

NoReq == Req(None, None, 0, Admin, NoBody)

Goto(S, r, pc) == [S |-> S, r |-> [r EXCEPT !.pc = pc]]

Respond(S, r, code) == [S |-> S, r |-> [r EXCEPT !.pc = "done", !.res = code]]

isAdmin(user) == user.role = "ADMIN"

\* a value the store accepts for the status column: no value, or a
\* member of the document's status enum
StatusAccepted(kind, status) == status = None \/ status \in StatusEnum(kind)

\* every line refers to an existing product
ProductsExist(lines) == \A i \in 1..Len(lines) : lines[i].productId \in ProductIds

(***************************************************************************)
(* POST /api/invoices, /api/vendor-bills, /api/sales-orders.               *)
(***************************************************************************)
PostDocStep(S, r) ==
  CASE r.pc = "start" ->
         IF ~isAdmin(r.user) THEN Respond(S, r, 401)
         ELSE LET g == getNextSequence(S.sequences, r.kind)
              IN Goto([S EXCEPT !.sequences = g.sequences],
                      [r EXCEPT !.loc.number = g.id], "create")
    [] r.pc = "create" ->
         IF r.body.linesKind # "list" THEN Respond(S, r, 500)
         ELSE LET priced == PriceLines(applyAutoAnalyticalToLines(r.body.lines))
                  doc == [kind |-> r.kind, number |-> r.loc.number,
                          contactId |-> r.body.contactId,
                          orderId |-> r.body.orderId,
                          status |-> IF r.body.status # None THEN r.body.status
                                     ELSE "DRAFT",
                          subtotal |-> priced.subtotal,
                          taxAmount |-> priced.taxAmount,
                          totalAmount |-> priced.totalAmount,
                          paidAmount |-> 0,
                          lines |-> priced.lines]
              IN IF StatusAccepted(r.kind, r.body.status) /\ ProductsExist(r.body.lines)
                 THEN Respond([S EXCEPT !.docs = Append(@, doc)],
                              [r EXCEPT !.id = Len(S.docs) + 1], 201)
                 ELSE Respond(S, r, 500)

(***************************************************************************)
(* PUT /api/invoices/[id], /api/vendor-bills/[id],                         *)
(* /api/purchase-orders/[id], /api/sales-orders/[id].                      *)
(***************************************************************************)
HasPayments(S, kind, id) ==
  DocOfKind(S, id, kind) /\ PaymentsOf(S.payments, kind, id) # {}

LinesLocked_WhenPaid(S, r) ==
  /\ r.kind \in PayableKinds
  /\ DocOfKind(S, r.id, r.kind) /\ S.docs[r.id].status = "PAID"
  /\ r.body.linesKind # "none"

LinesLocked(S, r) ==
  r.kind \in PayableKinds /\ HasPayments(S, r.kind, r.id) /\ r.body.linesKind # "none"

PutDocStep(S, r) ==
  CASE r.pc = "start" ->
         IF ~isAdmin(r.user) THEN Respond(S, r, 401)
         ELSE IF LinesLocked(S, r) THEN Respond(S, r, 400)
         ELSE IF r.body.linesKind # "none" THEN Goto(S, r, "deleteMany")
         ELSE Goto(S, r, "update")
    [] r.pc = "deleteMany" ->
         IF DocOfKind(S, r.id, r.kind)
         THEN Goto([S EXCEPT !.docs[r.id].lines = <<>>], r, "createMany")
         ELSE Goto(S, r, "createMany")
    [] r.pc = "createMany" ->
         IF r.body.linesKind # "list" THEN Respond(S, r, 500)
         ELSE LET priced == PriceLines(applyAutoAnalyticalToLines(r.body.lines))
              IN IF Len(r.body.lines) = 0 THEN Goto(S, r, "update")
                 ELSE IF DocOfKind(S, r.id, r.kind) /\ ProductsExist(r.body.lines)
                 THEN Goto([S EXCEPT !.docs[r.id].lines = @ \o priced.lines],
                           r, "update")
                 ELSE Respond(S, r, 500)
    [] r.pc = "update" ->
         IF ~(DocOfKind(S, r.id, r.kind) /\ StatusAccepted(r.kind, r.body.status))
         THEN Respond(S, r, 500)
         ELSE LET old == S.docs[r.id]
                  priced == PriceLines(applyAutoAnalyticalToLines(r.body.lines))
                  status == IF r.body.status # None THEN r.body.status ELSE old.status
                  new == IF r.body.linesKind = "none"
                         THEN [old EXCEPT !.status = status]
                         ELSE [old EXCEPT !.status = status,
                                          !.contactId = IF r.body.contactId # None
                                                        THEN r.body.contactId ELSE @,
                                          !.subtotal = priced.subtotal,
                                          !.taxAmount = priced.taxAmount,
                                          !.totalAmount = priced.totalAmount]
              IN Respond([S EXCEPT !.docs[r.id] = new], r, 200)

(***************************************************************************)
(* DELETE of a document: a soft cancel, refused while payments (invoice,   *)
(* vendor bill) or linked bills / invoices (orders) exist.                 *)
(***************************************************************************)
DependentKind(kind) ==
  IF kind = "purchase_order" THEN "vendor_bill" ELSE "invoice"

DependentCount_ActiveOnly(S, kind, id) ==
  IF kind \in PayableKinds
  THEN Cardinality(PaymentsOf(S.payments, kind, id))
  ELSE Cardinality({d \in 1..Len(S.docs) :
                     /\ S.docs[d].kind = DependentKind(kind)
                     /\ S.docs[d].orderId = id
                     /\ S.docs[d].status # "CANCELLED"})

DependentCount(S, kind, id) ==
  IF kind \in PayableKinds
  THEN Cardinality(PaymentsOf(S.payments, kind, id))
  ELSE Cardinality({d \in 1..Len(S.docs) :
                     S.docs[d].kind = DependentKind(kind) /\ S.docs[d].orderId = id})

DeleteDocStep(S, r) ==
  CASE r.pc = "start" ->
         IF ~isAdmin(r.user) THEN Respond(S, r, 401)
         ELSE IF DependentCount(S, r.kind, r.id) > 0 THEN Respond(S, r, 400)
         ELSE Goto(S, r, "cancel")
    [] r.pc = "cancel" ->
         IF DocOfKind(S, r.id, r.kind)
         THEN Respond([S EXCEPT !.docs[r.id].status = "CANCELLED"], r, 200)
         ELSE Respond(S, r, 500)

(***************************************************************************)
(* updateInvoicePaymentStatus / updateVendorBillPaymentStatus: a read of   *)
(* the document with its payments, then a write of paidAmount and status.  *)
(* The routine of POST /api/payments is the variant "create", the one of   *)
(* DELETE /api/payments/[id] the variant "delete".                         *)
(***************************************************************************)
Variant(r) == IF r.op = "POST_PAYMENT" THEN "create" ELSE "delete"

AfterInvoice(S, r) ==
  IF r.loc.vendorBillId # 0 THEN Goto(S, r, "billRead")
  ELSE Respond(S, r, IF r.op = "POST_PAYMENT" THEN 201 ELSE 200)

AfterCreateOrDelete(S, r) ==
  IF r.loc.invoiceId # 0 THEN Goto(S, r, "invoiceRead") ELSE AfterInvoice(S, r)

ReconcileRead(S, r, kind, id) ==
  IF DocOfKind(S, id, kind)
  THEN [r EXCEPT !.loc.found = TRUE,
                 !.loc.status = S.docs[id].status,
                 !.loc.totalPaid = TotalPaid(PaymentsOf(S.payments, kind, id)),
                 !.loc.totalAmount = parseDecimal(S.docs[id].totalAmount)]
  ELSE [r EXCEPT !.loc.found = FALSE]

ReconcileWrite_Accumulate(S, r, id) ==
  [S EXCEPT !.docs[id].paidAmount = @ + r.loc.totalPaid,
            !.docs[id].status = PaymentStatus(Variant(r), r.loc.status,
                                              r.loc.totalPaid, r.loc.totalAmount)]

ReconcileWrite(S, r, id) ==
  [S EXCEPT !.docs[id].paidAmount = r.loc.totalPaid,
            !.docs[id].status = PaymentStatus(Variant(r), r.loc.status,
                                              r.loc.totalPaid, r.loc.totalAmount)]

ReconcileStep(S, r) ==
  CASE r.pc = "invoiceRead" ->
         LET rr == ReconcileRead(S, r, "invoice", r.loc.invoiceId)
         IN IF rr.loc.found THEN Goto(S, rr, "invoiceWrite") ELSE AfterInvoice(S, rr)
    [] r.pc = "invoiceWrite" ->
         AfterInvoice(ReconcileWrite(S, r, r.loc.invoiceId), r)
    [] r.pc = "billRead" ->
         LET rr == ReconcileRead(S, r, "vendor_bill", r.loc.vendorBillId)
         IN IF rr.loc.found THEN Goto(S, rr, "billWrite")
            ELSE Respond(S, rr, IF r.op = "POST_PAYMENT" THEN 201 ELSE 200)
    [] r.pc = "billWrite" ->
         Respond(ReconcileWrite(S, r, r.loc.vendorBillId), r,
                 IF r.op = "POST_PAYMENT" THEN 201 ELSE 200)

(***************************************************************************)
(* POST /api/payments.                                                     *)
(***************************************************************************)
CustomerMayPay(S, r) ==
  /\ r.body.type = "INCOMING"
  /\ r.body.invoiceId # 0 =>
        /\ DocOfKind(S, r.body.invoiceId, "invoice")
        /\ S.docs[r.body.invoiceId].contactId = r.user.contactId

LinkAccepted(S, kind, id) == id = 0 \/ DocOfKind(S, id, kind)

PostPaymentStep(S, r) ==
  CASE r.pc = "start" ->
         IF r.user.role = "CUSTOMER" /\ ~CustomerMayPay(S, r)
         THEN Respond(S, r, 401)
         ELSE Goto(S, r, "sequence")
    [] r.pc = "sequence" ->
         LET g == getNextSequence(S.sequences, "payment")
         IN Goto([S EXCEPT !.sequences = g.sequences],
                 [r EXCEPT !.loc.number = g.id], "create")
    [] r.pc = "create" ->
         IF LinkAccepted(S, "invoice", r.body.invoiceId)
            /\ LinkAccepted(S, "vendor_bill", r.body.vendorBillId)
         THEN LET payment == [id |-> S.nextPaymentId,
                              invoiceId |-> r.body.invoiceId,
                              vendorBillId |-> r.body.vendorBillId,
                              amount |-> r.body.amount]
              IN AfterCreateOrDelete(
                   [S EXCEPT !.payments = @ \cup {payment},
                             !.nextPaymentId = @ + 1],
                   [r EXCEPT !.id = payment.id,
                             !.loc.invoiceId = payment.invoiceId,
                             !.loc.vendorBillId = payment.vendorBillId])
         ELSE Respond(S, r, 500)
    [] OTHER -> ReconcileStep(S, r)

(***************************************************************************)
(* DELETE /api/payments/[id].                                              *)
(***************************************************************************)
PaymentRows(S, id) == {p \in S.payments : p.id = id}

DeletePaymentStep(S, r) ==
  CASE r.pc = "start" ->
         IF ~isAdmin(r.user) THEN Respond(S, r, 401)
         ELSE IF PaymentRows(S, r.id) = {} THEN Respond(S, r, 404)
         ELSE LET payment == CHOOSE p \in PaymentRows(S, r.id) : TRUE
              IN Goto(S, [r EXCEPT !.loc.invoiceId = payment.invoiceId,
                                   !.loc.vendorBillId = payment.vendorBillId],
                      "delete")
    [] r.pc = "delete" ->
         IF PaymentRows(S, r.id) = {} THEN Respond(S, r, 500)
         ELSE AfterCreateOrDelete(
                [S EXCEPT !.payments = @ \ PaymentRows(S, r.id)], r)
    [] OTHER -> ReconcileStep(S, r)

(***************************************************************************)
(* One step of a request, and a request run from where it stands to its    *)
(* response with no other request in between.                              *)
(***************************************************************************)
Step(S, r) ==
  CASE r.op = "POST_DOC" -> PostDocStep(S, r)
    [] r.op = "PUT_DOC" -> PutDocStep(S, r)
    [] r.op = "DELETE_DOC" -> DeleteDocStep(S, r)
    [] r.op = "POST_PAYMENT" -> PostPaymentStep(S, r)
    [] r.op = "DELETE_PAYMENT" -> DeletePaymentStep(S, r)

RECURSIVE Run(_, _)
Run(S, r) ==
  IF r.pc = "done" THEN [S |-> S, r |-> r]
  ELSE LET out == Step(S, r) IN Run(out.S, out.r)

(***************************************************************************)
(* Request inputs.                                                         *)
(***************************************************************************)
Line(productId, quantity, unitPrice, taxRate, account) ==
  [productId |-> productId, quantity |-> quantity, unitPrice |-> unitPrice,
   taxRate |-> taxRate, analyticalAccountId |-> account]

\* the invoice of the pricing scenario: 2 x 25000 and 1 x 42000 at 18%
ScenarioLines ==
  << Line("FG001", 2, 25000, 18, None), Line("FG003", 1, 42000, 18, "ADMIN") >>

SmallLines == << Line("RM001", 3, 100, 10, None) >>

\* quantity <= 0, negative unit price, negative tax rate
InvalidLines ==
  << Line("RM001", 0 - 1, 100, 18, None), Line("FG001", 0, 0 - 100, 0 - 18, None) >>

UnknownProductLines == << Line(NoSuchProduct, 1, 100, 10, None) >>

LineLists == {ScenarioLines, SmallLines, InvalidLines, UnknownProductLines}

ContactOf(kind) == IF kind \in {"invoice", "sales_order"} THEN "C1" ELSE "V1"

PostedStatus(kind) == IF kind \in PayableKinds THEN "POSTED" ELSE "CONFIRMED"

DocBody(kind, linesKind, lines, status) ==
  [NoBody EXCEPT !.linesKind = linesKind, !.lines = lines, !.status = status,
                 !.contactId = ContactOf(kind)]

\* bodies of a create request: lines and no status, no lines at all,
\* lines and a status the enum does not have, an empty list of lines
\* and the posted status
PostBodies(kind) ==
  { DocBody(kind, "list", l, None) : l \in LineLists }
    \cup { DocBody(kind, "none", <<>>, None),
           DocBody(kind, "list", ScenarioLines, "NOT_A_STATUS"),
           DocBody(kind, "list", <<>>, PostedStatus(kind)) }

\* a status of the enum that a body may carry without lines
StatusChanges(kind) ==
  IF kind \in PayableKinds THEN {"POSTED", "PAID", "CANCELLED"}
  ELSE {"CONFIRMED", "CANCELLED"}

\* bodies of an update request: lines with no status, lines with a status
\* the enum does not have, a status change without lines, and a lines
\* value that is not a list
PutBodies(kind) ==
  { DocBody(kind, "list", l, None) : l \in LineLists }
    \cup { DocBody(kind, "list", ScenarioLines, "NOT_A_STATUS"),
           DocBody(kind, "notarray", <<>>, None) }
    \cup { DocBody(kind, "none", <<>>, status) : status \in StatusChanges(kind) }

PostDocReqs ==
  UNION { { Req("POST_DOC", kind, 0, Admin, body) : body \in PostBodies(kind) } :
          kind \in CreatableKinds }

PutDocReqs ==
  UNION { { Req("PUT_DOC", docs[id].kind, id, Admin, body) :
              body \in PutBodies(docs[id].kind) } :
          id \in 1..Len(docs) }

DeleteDocReqs ==
  { Req("DELETE_DOC", docs[id].kind, id, Admin, NoBody) : id \in 1..Len(docs) }

PaymentAmounts == {0, 5000000, 5856000}

DocIdsOfKind(kind) == {id \in 1..Len(docs) : docs[id].kind = kind}

PostPaymentReqs ==
  { Req("POST_PAYMENT", None, 0, user,
        [NoBody EXCEPT !.type = type, !.invoiceId = invoiceId,
                       !.vendorBillId = vendorBillId, !.amount = amount]) :
      user \in {Admin, Customer}, type \in {"INCOMING"},
      invoiceId \in {0} \cup DocIdsOfKind("invoice"),
      vendorBillId \in {0} \cup DocIdsOfKind("vendor_bill"),
      amount \in PaymentAmounts }

DeletePaymentReqs ==
  { Req("DELETE_PAYMENT", None, id, Admin, NoBody) : id \in 1..(nextPaymentId - 1) }

(***************************************************************************)
(* Initial state: the seeded database, no request received.                *)
(***************************************************************************)
Init ==
  /\ docs = SeedDocs
  /\ payments = SeedPayments
  /\ sequences = SeedSequences
  /\ nextPaymentId = 2
  /\ inflight = <<>>
  /\ lastReq = NoReq
  /\ nreq = 0
  /\ products = Products
  /\ rules = Rules
  /\ resolved = NoResult
  /\ applied = NoApplied
  /\ budgets = SeedBudgets
  /\ revisions = <<>>

SetStore(S) ==
  /\ docs' = S.docs
  /\ payments' = S.payments
  /\ sequences' = S.sequences
  /\ nextPaymentId' = S.nextPaymentId

(***************************************************************************)
(* Requests served one after the other: every action is a whole handler.   *)
(***************************************************************************)
Serve(r) ==
  LET out == Run(Store, r)
  IN /\ nreq < MaxRequests
     /\ SetStore(out.S)
     /\ lastReq' = out.r
     /\ nreq' = nreq + 1
     /\ UNCHANGED <<inflight, masterData>>

PostDocument == Len(docs) < MaxDocs /\ \E r \in PostDocReqs : Serve(r)

PutDocument == \E r \in PutDocReqs : Serve(r)

DeleteDocument == \E r \in DeleteDocReqs : Serve(r)

PostPayment == Cardinality(payments) < MaxPayments /\ \E r \in PostPaymentReqs : Serve(r)

DeletePayment == \E r \in DeletePaymentReqs : Serve(r)

Next == PostDocument \/ PutDocument \/ DeleteDocument \/ PostPayment \/ DeletePayment

Spec == Init /\ [][Next]_vars

(***************************************************************************)
(* Requests served concurrently: a request is received, then advances one  *)
(* store operation at a time, interleaved with the other requests.         *)
(***************************************************************************)
Remove(seq, i) == SubSeq(seq, 1, i - 1) \o SubSeq(seq, i + 1, Len(seq))

InFlight(op) == {i \in 1..Len(inflight) : inflight[i].op = op}

Receive(r) ==
  /\ Len(inflight) < MaxInFlight
  /\ nreq < MaxConcRequests
  /\ inflight' = Append(inflight, r)
  /\ nreq' = nreq + 1
  /\ UNCHANGED <<docs, payments, sequences, nextPaymentId, lastReq, masterData>>

Advance(i) ==
  LET out == Step(Store, inflight[i])
  IN /\ SetStore(out.S)
     /\ IF out.r.pc = "done"
        THEN inflight' = Remove(inflight, i) /\ lastReq' = out.r
        ELSE inflight' = [inflight EXCEPT ![i] = out.r] /\ UNCHANGED lastReq
     /\ UNCHANGED <<nreq, masterData>>

\* the inputs of the concurrent runs: one create body, an update with
\* lines and one without, payments by the administrator on one document
ConcPostDocReqs ==
  { Req("POST_DOC", "invoice", 0, Admin, DocBody("invoice", "list", SmallLines, None)) }

ConcPutDocReqs ==
  UNION { { Req("PUT_DOC", docs[id].kind, id, Admin, body) :
              body \in { DocBody(docs[id].kind, "list", SmallLines, None),
                         DocBody(docs[id].kind, "list", ScenarioLines, None),
                         DocBody(docs[id].kind, "none", <<>>,
                                 PostedStatus(docs[id].kind)) } } :
          id \in 1..Len(docs) }

ConcPostPaymentReqs ==
  { r \in PostPaymentReqs :
      /\ r.user = Admin
      /\ r.body.amount # 0
      /\ (r.body.invoiceId = 0) # (r.body.vendorBillId = 0) }

ReceivePostDocument ==
  /\ Len(docs) + Cardinality(InFlight("POST_DOC")) < MaxDocs
  /\ \E r \in ConcPostDocReqs : Receive(r)

ReceivePutDocument == \E r \in ConcPutDocReqs : Receive(r)

ReceiveDeleteDocument == \E r \in DeleteDocReqs : Receive(r)

ReceivePostPayment ==
  /\ Cardinality(payments) + Cardinality(InFlight("POST_PAYMENT")) < MaxPayments
  /\ \E r \in ConcPostPaymentReqs : Receive(r)

ReceiveDeletePayment == \E r \in DeletePaymentReqs : Receive(r)

StepPostDocument == \E i \in InFlight("POST_DOC") : Advance(i)

StepPutDocument == \E i \in InFlight("PUT_DOC") : Advance(i)

StepDeleteDocument == \E i \in InFlight("DELETE_DOC") : Advance(i)

StepPostPayment == \E i \in InFlight("POST_PAYMENT") : Advance(i)

StepDeletePayment == \E i \in InFlight("DELETE_PAYMENT") : Advance(i)

NextConc ==
  \/ ReceivePostDocument \/ ReceivePutDocument \/ ReceiveDeleteDocument
  \/ ReceivePostPayment \/ ReceiveDeletePayment
  \/ StepPostDocument \/ StepPutDocument \/ StepDeleteDocument
  \/ StepPostPayment \/ StepDeletePayment

SpecConc == Init /\ [][NextConc]_vars

(***************************************************************************)
(* Reconciliation on its own: one document of any status and total, with   *)
(* any stored paidAmount and any set of linked payments, on which the      *)
(* routine of one of the two handlers is run again and again.              *)
(***************************************************************************)
ReconTotals == {0, 2950000, 10856000}

ReconAmounts == <<0, 5000000, 5856000>>

ReconDoc(kind, status, totalAmount, paidAmount) ==
  [kind |-> kind, number |-> FormatNumber(kind, SeedNextNumber + 1),
   contactId |-> ContactOf(kind), orderId |-> 0, status |-> status,
   subtotal |-> totalAmount, taxAmount |-> 0, totalAmount |-> totalAmount,
   paidAmount |-> paidAmount, lines |-> <<>>]

ReconPayments(kind, ids) ==
  { [id |-> i, invoiceId |-> IF kind = "invoice" THEN 1 ELSE 0,
     vendorBillId |-> IF kind = "invoice" THEN 0 ELSE 1,
     amount |-> ReconAmounts[i]] : i \in ids }

\* the request whose reconciliation runs: a payment creation or deletion
\* that has just written the payment row of document 1
ReconReq(op, kind) ==
  [Req(op, None, 0, Admin, NoBody) EXCEPT
     !.loc.invoiceId = IF kind = "invoice" THEN 1 ELSE 0,
     !.loc.vendorBillId = IF kind = "invoice" THEN 0 ELSE 1,
     !.pc = IF kind = "invoice" THEN "invoiceRead" ELSE "billRead"]

InitRecon ==
  /\ \E kind \in PayableKinds, status \in StatusEnum("invoice"),
        totalAmount \in ReconTotals, paidAmount \in {0, 5000000},
        ids \in SUBSET (DOMAIN ReconAmounts), op \in {"POST_PAYMENT", "DELETE_PAYMENT"} :
        /\ docs = << ReconDoc(kind, status, totalAmount, paidAmount) >>
        /\ payments = ReconPayments(kind, ids)
        /\ lastReq = ReconReq(op, kind)
  /\ sequences = SeedSequences
  /\ nextPaymentId = Len(ReconAmounts) + 1
  /\ inflight = <<>>
  /\ nreq = 0
  /\ products = Products
  /\ rules = Rules
  /\ resolved = NoResult
  /\ applied = NoApplied
  /\ budgets = SeedBudgets
  /\ revisions = <<>>

Reconcile(op) ==
  LET out == Run(Store, ReconReq(op, docs[1].kind))
  IN /\ nreq < MaxRuns
     /\ lastReq.op = op
     /\ SetStore(out.S)
     /\ nreq' = nreq + 1
     /\ UNCHANGED <<inflight, lastReq, masterData>>

ReconcileAfterCreate == Reconcile("POST_PAYMENT")

ReconcileAfterDelete == Reconcile("DELETE_PAYMENT")

NextRecon == ReconcileAfterCreate \/ ReconcileAfterDelete

SpecRecon == InitRecon /\ [][NextRecon]_vars

(***************************************************************************)
(* The rule engine on its own: rules are created, updated and switched off *)
(* through /api/auto-analytical-rules, and getAnalyticalAccountForProduct  *)
(* is called for products with and without a default cost center.          *)
(***************************************************************************)
MaxRules == 2

\* products created without a cost center, next to a seeded one
CatalogProducts ==
  [RM001 |-> Products["RM001"],
   RAWX |-> [analyticalAccountId |-> None, category |-> "RAW_MATERIAL",
             name |-> <<"T", "e", "a", "k">>],
   GOODX |-> [analyticalAccountId |-> None, category |-> "FINISHED_GOODS",
              name |-> <<"D", "e", "s", "k">>]]

RuleBody(name, productCategory, productNameContains, analyticalAccountId, priority) ==
  [name |-> name, productCategory |-> productCategory,
   productNameContains |-> productNameContains,
   analyticalAccountId |-> analyticalAccountId, priority |-> priority]

\* a rule on a category, a rule without conditions, a rule on a name part
\* with no priority given, and two rules of priority 2 on a category
RuleBodies ==
  { RuleBody("Raw Materials to Production", "RAW_MATERIAL", None, "PROD", 1),
    RuleBody("Everything to Sales", None, None, "SALES", 2),
    RuleBody("Teak to Administration", None, <<"T", "E">>, "ADMIN", 0),
    RuleBody("Raw Materials to Sales", "RAW_MATERIAL", None, "SALES", 2),
    RuleBody("Finished Goods to Sales", "FINISHED_GOODS", None, "SALES", 2) }

\* fields of an update body; a field that is absent is left as it is
RuleUpdates ==
  { [hasPriority |-> FALSE, priority |-> 0, hasIsActive |-> TRUE, isActive |-> TRUE],
    [hasPriority |-> TRUE, priority |-> 2, hasIsActive |-> FALSE, isActive |-> FALSE] }

InitRules ==
  /\ docs = SeedDocs
  /\ payments = SeedPayments
  /\ sequences = SeedSequences
  /\ nextPaymentId = 2
  /\ inflight = <<>>
  /\ lastReq = NoReq
  /\ nreq = 0
  /\ products = CatalogProducts
  /\ rules = <<>>
  /\ resolved = NoResult
  /\ applied = NoApplied
  /\ budgets = SeedBudgets
  /\ revisions = <<>>

WriteRules(table) ==
  /\ rules' = table
  /\ resolved' = NoResult
  /\ applied' = NoApplied
  /\ UNCHANGED <<docs, payments, sequences, nextPaymentId, inflight, lastReq, nreq,
                 products, budgets, revisions>>

\* POST /api/auto-analytical-rules
PostRule ==
  /\ Len(rules) < MaxRules
  /\ \E user \in {Admin, Customer}, body \in RuleBodies :
        IF ~isAdmin(user) THEN UNCHANGED vars
        ELSE WriteRules(Append(rules,
               [name |-> body.name,
                productCategory |-> body.productCategory,
                productNameContains |-> body.productNameContains,
                analyticalAccountId |-> body.analyticalAccountId,
                priority |-> IF body.priority # 0 THEN body.priority ELSE 1,
                isActive |-> TRUE]))

\* PUT /api/auto-analytical-rules/[id]
PutRule ==
  \E user \in {Admin, Customer}, id \in 1..Len(rules), body \in RuleUpdates :
     IF ~isAdmin(user) THEN UNCHANGED vars
     ELSE WriteRules([rules EXCEPT
            ![id].priority = IF body.hasPriority THEN body.priority ELSE @,
            ![id].isActive = IF body.hasIsActive THEN body.isActive ELSE @])

\* DELETE /api/auto-analytical-rules/[id]
DeleteRule ==
  \E user \in {Admin, Customer}, id \in 1..Len(rules) :
     IF ~isAdmin(user) THEN UNCHANGED vars
     ELSE WriteRules([rules EXCEPT ![id].isActive = FALSE])

\* a call of getAnalyticalAccountForProduct
Resolve ==
  \E productId \in ProductIds \cup {NoSuchProduct}, found \in findMany(rules) :
     /\ resolved' = [productId |-> productId,
                     analyticalAccountId |-> ResolveWith(found, productId)]
     /\ UNCHANGED <<docs, payments, sequences, nextPaymentId, inflight, lastReq, nreq,
                    products, rules, applied, budgets, revisions>>

\* lines over products with and without a default cost center and over a
\* product that does not exist, with and without a cost center of their own
RuleLineLists ==
  { << Line("RAWX", 1, 100, 18, None), Line("GOODX", 1, 100, 18, "ADMIN"),
       Line("RM001", 1, 100, 18, None) >>,
    << Line("GOODX", 2, 100, 18, None), Line("RAWX", 1, 100, 18, "ADMIN") >>,
    << Line(NoSuchProduct, 1, 100, 18, None) >>,
    << >> }

\* a call of applyAutoAnalyticalToLines
ApplyToLines ==
  \E lines \in RuleLineLists :
     /\ applied' = [lines |-> lines, result |-> applyAutoAnalyticalToLines(lines)]
     /\ UNCHANGED <<docs, payments, sequences, nextPaymentId, inflight, lastReq, nreq,
                    products, rules, resolved, budgets, revisions>>

NextRules == PostRule \/ PutRule \/ DeleteRule \/ Resolve \/ ApplyToLines

SpecRules == InitRules /\ [][NextRules]_vars

(***************************************************************************)
(* Budgets: PUT and DELETE /api/budgets/[id].  A budget row has an amount  *)
(* and a revised amount that may be null (revisedSet false).               *)
(***************************************************************************)
MaxBudgetUpdates == 3

BudgetUpdate(hasAmount, amount, hasRevisedAmount, revisedAmount) ==
  [hasAmount |-> hasAmount, amount |-> amount,
   hasRevisedAmount |-> hasRevisedAmount, revisedAmount |-> revisedAmount]

\* bodies with a revised amount, an amount, both, and neither
BudgetUpdates ==
  { BudgetUpdate(FALSE, 0, TRUE, 5500000),
    BudgetUpdate(TRUE, 6000000, FALSE, 0),
    BudgetUpdate(TRUE, 6000000, TRUE, 5500000),
    BudgetUpdate(TRUE, 5000000, FALSE, 0),
    BudgetUpdate(FALSE, 0, FALSE, 0) }

\* currentBudget.revisedAmount || currentBudget.amount
currentAmount(budget) ==
  IF budget.revisedSet THEN budget.revisedAmount ELSE budget.amount

\* body.revisedAmount || body.amount; 0 when neither is given
newAmount(body) ==
  IF body.hasRevisedAmount /\ body.revisedAmount # 0 THEN body.revisedAmount
  ELSE IF body.hasAmount THEN body.amount
  ELSE 0

PutBudget ==
  /\ nreq < MaxBudgetUpdates
  /\ \E user \in {Admin, Customer}, id \in 1..Len(budgets), body \in BudgetUpdates :
        IF ~isAdmin(user) THEN UNCHANGED vars
        ELSE /\ revisions' =
                  IF newAmount(body) # 0
                     /\ newAmount(body) # currentAmount(budgets[id])
                  THEN Append(revisions,
                              [budgetId |-> id,
                               previousAmount |-> currentAmount(budgets[id]),
                               newAmount |-> newAmount(body)])
                  ELSE revisions
             /\ budgets' = [budgets EXCEPT
                  ![id].amount = IF body.hasAmount THEN body.amount ELSE @,
                  ![id].revisedSet = IF body.hasRevisedAmount THEN TRUE ELSE @,
                  ![id].revisedAmount =
                     IF body.hasRevisedAmount THEN body.revisedAmount ELSE @]
             /\ nreq' = nreq + 1
             /\ UNCHANGED <<docs, payments, sequences, nextPaymentId, inflight,
                            lastReq, products, rules, resolved, applied>>

DeleteBudget ==
  \E user \in {Admin, Customer}, id \in 1..Len(budgets) :
     IF ~isAdmin(user) THEN UNCHANGED vars
     ELSE /\ budgets' = [budgets EXCEPT ![id].isActive = FALSE]
          /\ UNCHANGED <<docs, payments, sequences, nextPaymentId, inflight,
                         lastReq, nreq, products, rules, resolved, applied,
                         revisions>>

NextBudget == PutBudget \/ DeleteBudget

SpecBudget == Init /\ [][NextBudget]_vars

(***************************************************************************)
(* Properties.                                                             *)
(***************************************************************************)
PayableDocs == {id \in 1..Len(docs) : docs[id].kind \in PayableKinds}

LinkedTotal(id) == TotalPaid(PaymentsOf(payments, docs[id].kind, id))

PaymentServed ==
  /\ lastReq.op \in {"POST_PAYMENT", "DELETE_PAYMENT"}
  /\ lastReq.res \in {200, 201}

\* the documents the last payment request has reconciled
Reconciled ==
  IF PaymentServed
  THEN {id \in PayableDocs :
          \/ docs[id].kind = "invoice" /\ lastReq.loc.invoiceId = id
          \/ docs[id].kind = "vendor_bill" /\ lastReq.loc.vendorBillId = id}
  ELSE {}

\* C1: with requests served one after the other, the stored paidAmount of
\* every invoice and vendor bill is the sum of the amounts of the payments
\* linked to it.
C1_PaidAmountIsSumOfPayments ==
  \A id \in PayableDocs : docs[id].paidAmount = LinkedTotal(id)

C1_Witness ==
  /\ lastReq.op = "DELETE_PAYMENT" /\ lastReq.res = 200 /\ lastReq.id = 1
  /\ docs[4].paidAmount = 0
  /\ docs[2].paidAmount = 5000000

\* C2: after a payment creation or deletion has reconciled a document, its
\* status is PAID exactly when the linked payments sum to at least the
\* total, and PARTIALLY_PAID exactly when the sum is positive and below it.
C2_StatusFollowsPayments ==
  \A id \in Reconciled :
     /\ docs[id].status = "PAID" <=> LinkedTotal(id) >= docs[id].totalAmount
     /\ docs[id].status = "PARTIALLY_PAID" <=>
           (LinkedTotal(id) > 0 /\ LinkedTotal(id) < docs[id].totalAmount)

\* total 108560, one payment of 50000: PARTIALLY_PAID
C2_Witness ==
  /\ 2 \in Reconciled
  /\ lastReq.op = "POST_PAYMENT"
  /\ docs[2].totalAmount = 10856000
  /\ docs[2].paidAmount = 5000000
  /\ docs[2].status = "PARTIALLY_PAID"

PostedBaseState(kind) == IF kind = "invoice" THEN "SENT" ELSE "POSTED"

\* C3: after a payment creation or deletion has reconciled a document whose
\* linked payments sum to zero, the document is in its posted base state
\* (SENT for an invoice, POSTED for a vendor bill) and not in DRAFT.
C3_ZeroPaidIsPostedBase ==
  \A id \in Reconciled :
     LinkedTotal(id) = 0 =>
       /\ docs[id].status = PostedBaseState(docs[id].kind)
       /\ docs[id].status # "DRAFT"

\* C4: a second run of a reconciliation routine, with no payment added or
\* removed since the first, changes neither status nor paidAmount.
C4_ReconcileIdempotent == [][nreq >= 1 => docs' = docs]_vars

C4_Witness ==
  /\ nreq = 2 /\ lastReq.op = "POST_PAYMENT"
  /\ payments = {}
  /\ docs[1].totalAmount = 10856000
  /\ docs[1].status = "POSTED" /\ docs[1].paidAmount = 0

DocServed(ops) == lastReq.op \in ops /\ lastReq.res \in {200, 201}

StoredSubtotal(line) == line.quantity * line.unitPrice * 100

\* C5: every document's subtotal is the sum of quantity * unitPrice over its
\* stored lines, its taxAmount the sum of the stored line taxes, and its
\* totalAmount their sum.
C5_TotalsMatchLines ==
  \A id \in 1..Len(docs) :
     /\ docs[id].subtotal = SumSeq(MapSeq(docs[id].lines, StoredSubtotal))
     /\ docs[id].taxAmount = SumSeq(MapSeq(docs[id].lines, LAMBDA l : l.taxAmount))
     /\ docs[id].totalAmount = docs[id].subtotal + docs[id].taxAmount

\* C6: every stored line has taxAmount = quantity * unitPrice * taxRate / 100
\* and lineTotal = quantity * unitPrice + taxAmount (in hundredths), and the
\* taxAmount of a document just written with lines is the sum of its line
\* taxes.
C6_LineTaxAndTotal ==
  /\ \A id \in 1..Len(docs) : \A i \in 1..Len(docs[id].lines) :
        LET l == docs[id].lines[i]
        IN /\ l.taxAmount = l.quantity * l.unitPrice * l.taxRate
           /\ l.lineTotal = l.quantity * l.unitPrice * 100 + l.taxAmount
  /\ (DocServed({"POST_DOC", "PUT_DOC"}) /\ lastReq.body.linesKind = "list") =>
        docs[lastReq.id].taxAmount =
          SumSeq(MapSeq(docs[lastReq.id].lines, LAMBDA l : l.taxAmount))

\* the scenario's invoice: line taxes 9000 and 7560, total 108560
C6_Witness ==
  /\ DocServed({"POST_DOC"}) /\ lastReq.kind = "invoice" /\ Len(docs) = 5
  /\ Len(docs[5].lines) = 2
  /\ docs[5].lines[1].taxAmount = 900000 /\ docs[5].lines[1].lineTotal = 5900000
  /\ docs[5].lines[2].taxAmount = 756000 /\ docs[5].lines[2].lineTotal = 4956000
  /\ docs[5].subtotal = 9200000 /\ docs[5].taxAmount = 1656000
  /\ docs[5].totalAmount = 10856000

LinesAndTotals(doc) ==
  [lines |-> doc.lines, subtotal |-> doc.subtotal, taxAmount |-> doc.taxAmount,
   totalAmount |-> doc.totalAmount]

\* what a line update that runs alone leaves in the document
UpdatedLinesAndTotals(body) == PriceLines(applyAutoAnalyticalToLines(body.lines))

\* C7: while the first request, a line update, is being served, the
\* document's lines and totals are those of before the update (the seed's)
\* or those of after it, at every step.
C7_LineUpdateAtomic ==
  \A i \in 1..Len(inflight) :
     (nreq = 1 /\ inflight[i].op = "PUT_DOC" /\ inflight[i].body.linesKind = "list") =>
        LinesAndTotals(docs[inflight[i].id]) \in
          { LinesAndTotals(SeedDocs[inflight[i].id]),
            UpdatedLinesAndTotals(inflight[i].body) }

\* C8: a document create or update request that ends in an error response
\* leaves every document, with its lines and totals, and every payment as
\* it was.
C8_ErrorLeavesStateUnchanged ==
  [][(lastReq'.op \in {"POST_DOC", "PUT_DOC"} /\ lastReq'.res >= 400)
       => (docs' = docs /\ payments' = payments)]_vars

InvalidLine(line) == line.quantity <= 0 \/ line.unitPrice < 0 \/ line.taxRate < 0

HasInvalidLine(body) ==
  body.linesKind = "list" /\ \E i \in 1..Len(body.lines) : InvalidLine(body.lines[i])

\* C9: a document create or line-update request with a line of quantity
\* <= 0, negative unit price or negative tax rate is rejected and writes
\* nothing: no document or line changes and no sequence counter advances.
C9_InvalidLineRejected ==
  [][(lastReq'.op \in {"POST_DOC", "PUT_DOC"} /\ HasInvalidLine(lastReq'.body))
       => (lastReq'.res = 400 /\ docs' = docs /\ sequences' = sequences)]_vars

\* C10: a line update of an invoice or vendor bill that has a linked payment
\* is rejected and leaves the document as it was.
C10_LinesLockedAfterPayment ==
  [][(/\ lastReq'.op = "PUT_DOC"
      /\ lastReq'.kind \in PayableKinds
      /\ lastReq'.body.linesKind = "list"
      /\ HasPayments(Store, lastReq'.kind, lastReq'.id))
       => (lastReq'.res = 400 /\ docs' = docs)]_vars

\* the seeded invoice, PARTIALLY_PAID with one payment, after a refused
\* line update
C10_Witness ==
  /\ lastReq.op = "PUT_DOC" /\ lastReq.id = 4 /\ lastReq.res = 400
  /\ lastReq.body.linesKind = "list"
  /\ PaymentsOf(payments, "invoice", 4) # {}
  /\ docs[4] = SeedDocs[4]

OrderKinds == {"purchase_order", "sales_order"}

\* the request served by the step is an update of an existing document
PutServed(kinds) ==
  /\ lastReq'.op = "PUT_DOC" /\ nreq' = nreq + 1
  /\ lastReq'.kind \in kinds
  /\ DocOfKind(Store, lastReq'.id, lastReq'.kind)

\* C11: an update with lines of a purchase order or sales order whose
\* status is not DRAFT is rejected, and leaves the order's lines and totals
\* as they were.
C11_OrderLinesOnlyInDraft ==
  [][(/\ PutServed(OrderKinds)
      /\ lastReq'.body.linesKind # "none"
      /\ docs[lastReq'.id].status # "DRAFT")
     => (lastReq'.res = 400 /\ docs' = docs)]_vars

\* C12: a document created by a create request has status DRAFT, whatever
\* the request body contains.
C12_CreatedInDraft ==
  [][(lastReq'.op = "POST_DOC" /\ nreq' = nreq + 1 /\ lastReq'.res = 201)
     => docs'[lastReq'.id].status = "DRAFT"]_vars

\* vendor bills of a purchase order, invoices of a sales order
LinkedDocs(id) ==
  {d \in 1..Len(docs) :
     /\ docs[d].orderId = id
     /\ docs[d].kind = IF docs[id].kind = "purchase_order" THEN "vendor_bill"
                       ELSE "invoice"}

C14_NoCancelledWithPayments ==
  \A id \in PayableDocs :
     docs[id].status = "CANCELLED" => PaymentsOf(payments, docs[id].kind, id) = {}

\* C15: a document whose status is CANCELLED keeps that status.
C15_CancelledIsTerminal ==
  [][\A id \in 1..Len(docs) :
        docs[id].status = "CANCELLED" => docs'[id].status = "CANCELLED"]_vars

PaidStates == {"PARTIALLY_PAID", "PAID"}

\* C16: an update request neither moves an invoice or vendor bill into or
\* out of PARTIALLY_PAID or PAID nor writes its paidAmount.
C16_PaidStatesOnlyByReconciliation ==
  [][PutServed(PayableKinds)
     => /\ docs'[lastReq'.id].paidAmount = docs[lastReq'.id].paidAmount
        /\ docs'[lastReq'.id].status # docs[lastReq'.id].status
             => /\ docs[lastReq'.id].status \notin PaidStates
                /\ docs'[lastReq'.id].status \notin PaidStates]_vars

\* C17: no invoice or vendor bill without stored lines has status POSTED,
\* SENT, PARTIALLY_PAID or PAID.
C17_PostedHasLines ==
  \A id \in PayableDocs :
     docs[id].lines = <<>> =>
       docs[id].status \notin {"POSTED", "SENT", "PARTIALLY_PAID", "PAID"}

\* C18: a payment creation or deletion never moves an invoice or vendor
\* bill from DRAFT straight to PARTIALLY_PAID or PAID: a document is in one
\* of these only after it has been in its posted state.
C18_PaidOnlyAfterPosted ==
  [][(lastReq'.op \in {"POST_PAYMENT", "DELETE_PAYMENT"} /\ nreq' = nreq + 1)
     => \A id \in PayableDocs :
           docs[id].status = "DRAFT" => docs'[id].status \notin PaidStates]_vars

\* active rules that match the product: by category, or by a part of its
\* name in any letter case
MatchingRules(productId) ==
  {i \in 1..Len(rules) :
     /\ rules[i].isActive
     /\ RuleMatches(rules[i], products[productId].category, products[productId].name)}

\* C19: for a product without a default cost center, the result is the
\* cost center of an active matching rule that no active matching rule of
\* a lower priority number precedes, and null when no active rule matches.
C19_FirstActiveRuleByPriority ==
  (resolved.productId \in ProductIds
     /\ products[resolved.productId].analyticalAccountId = None)
  => IF MatchingRules(resolved.productId) = {}
     THEN resolved.analyticalAccountId = None
     ELSE \E i \in MatchingRules(resolved.productId) :
             /\ resolved.analyticalAccountId = rules[i].analyticalAccountId
             /\ \A j \in MatchingRules(resolved.productId) :
                   rules[i].priority <= rules[j].priority

\* the rule of priority 2 was created first, the rule of priority 1 (on a
\* name part written in capitals) second: the second one wins
C19_Witness ==
  /\ Len(rules) = 2
  /\ rules[1].isActive /\ rules[1].priority = 2 /\ rules[1].analyticalAccountId = "SALES"
  /\ rules[2].isActive /\ rules[2].priority = 1 /\ rules[2].analyticalAccountId = "ADMIN"
  /\ MatchingRules("RAWX") = {1, 2}
  /\ resolved = [productId |-> "RAWX", analyticalAccountId |-> "ADMIN"]

\* priority 1 on category RAW_MATERIAL to PROD, priority 2 without
\* conditions to SALES
UnconditionalScenario(table) ==
  /\ Len(table) = 2
  /\ table[1].isActive /\ table[1].priority = 1
  /\ table[1].productCategory = "RAW_MATERIAL" /\ table[1].productNameContains = None
  /\ table[1].analyticalAccountId = "PROD"
  /\ table[2].isActive /\ table[2].priority = 2
  /\ table[2].productCategory = None /\ table[2].productNameContains = None
  /\ table[2].analyticalAccountId = "SALES"

\* C20: with these two rules, a product of category RAW_MATERIAL resolves
\* to PROD and a product of another category to SALES, the cost center of
\* the rule without conditions.
C20_UnconditionalRuleMatchesAll ==
  (UnconditionalScenario(rules) /\ resolved.productId \in {"RAWX", "GOODX"})
  => resolved.analyticalAccountId =
        IF products[resolved.productId].category = "RAW_MATERIAL" THEN "PROD"
        ELSE "SALES"

\* C21: a product that has a default cost center resolves to it, whatever
\* the rules are.
C21_ProductDefaultWins ==
  (resolved.productId \in ProductIds
     /\ products[resolved.productId].analyticalAccountId # None)
  => resolved.analyticalAccountId = products[resolved.productId].analyticalAccountId

\* an active rule of priority 1 matches the name of the product and names
\* another cost center
C21_Witness ==
  /\ resolved = [productId |-> "RM001", analyticalAccountId |-> "PROD"]
  /\ \E i \in MatchingRules("RM001") :
        rules[i].priority = 1 /\ rules[i].analyticalAccountId = "ADMIN"

\* results that getAnalyticalAccountForProduct can give for the product
EngineResults(productId) ==
  {ResolveWith(found, productId) : found \in findMany(rules)}

\* C22: applyAutoAnalyticalToLines returns as many lines as it is given,
\* in the same order; a line that has a cost center is returned as it is,
\* and a line that has none is returned with the rule engine's result for
\* its product and nothing else changed.
C22_ExplicitCostCenterKept ==
  /\ Len(applied.result) = Len(applied.lines)
  /\ \A i \in 1..Len(applied.lines) :
        IF applied.lines[i].analyticalAccountId # None
        THEN applied.result[i] = applied.lines[i]
        ELSE \E account \in EngineResults(applied.lines[i].productId) :
                applied.result[i] =
                  [applied.lines[i] EXCEPT !.analyticalAccountId = account]

\* a rule matches the product of the second line, which keeps its own cost
\* center; the first line gets the cost center of a rule, the third the
\* default of its product
C22_Witness ==
  /\ Len(applied.lines) = 3
  /\ applied.lines[1].analyticalAccountId = None
  /\ applied.result[1].analyticalAccountId = "SALES"
  /\ applied.lines[2].productId = "GOODX"
  /\ \E i \in MatchingRules("GOODX") : rules[i].analyticalAccountId = "SALES"
  /\ applied.result[2].analyticalAccountId = "ADMIN"
  /\ applied.result[3].analyticalAccountId = "PROD"

\* the sequence a request draws its identifier from
SequenceOf(r) == IF r.op = "POST_PAYMENT" THEN "payment" ELSE r.kind

\* requests in flight that hold an identifier, documents created by requests
Holders == {i \in 1..Len(inflight) : inflight[i].loc.number # NoNumber}

CreatedDocs == {d \in 1..Len(docs) : d > Len(SeedDocs)}

DistinctIssued ==
  /\ \A i, j \in Holders :
        (i # j /\ SequenceOf(inflight[i]) = SequenceOf(inflight[j]))
          => inflight[i].loc.number # inflight[j].loc.number
  /\ \A i \in Holders, d \in CreatedDocs :
        SequenceOf(inflight[i]) = docs[d].kind
          => inflight[i].loc.number # docs[d].number
  /\ \A d, e \in CreatedDocs :
        (d # e /\ docs[d].kind = docs[e].kind) => docs[d].number # docs[e].number

\* C23: with requests interleaved, the identifiers that getNextSequence has
\* returned for one sequence are all different, and every call moves the
\* sequence up by one and returns the identifier of the number it moved to.
C23_SequenceNumbersDistinct ==
  [][/\ DistinctIssued'
     /\ \A name \in SequenceNames :
           \/ sequences'[name] = sequences[name]
           \/ /\ sequences'[name] = sequences[name] + 1
              /\ \E i \in 1..Len(inflight') :
                    /\ SequenceOf(inflight'[i]) = name
                    /\ inflight'[i].loc.number = FormatNumber(name, sequences'[name])]_vars

\* two creations of payments in flight, each holding its identifier
C23_Witness ==
  /\ Len(inflight) = 2
  /\ \A i \in 1..2 : inflight[i].op = "POST_PAYMENT" /\ inflight[i].pc = "create"
  /\ inflight[1].loc.number = FormatNumber("payment", SeedNextNumber + 2)
  /\ inflight[2].loc.number = FormatNumber("payment", SeedNextNumber + 1)

\* C24: every payment is linked to an invoice or to a vendor bill or to
\* neither, never to both.
C24_PaymentHasOneLink ==
  \A p \in payments : p.invoiceId = 0 \/ p.vendorBillId = 0

\* C26: with requests interleaved, a PAID invoice or vendor bill has
\* paidAmount >= totalAmount and a PARTIALLY_PAID one has
\* 0 < paidAmount < totalAmount.
C26_PaidStatusMatchesAmounts ==
  \A id \in PayableDocs :
     /\ docs[id].status = "PAID" => docs[id].paidAmount >= docs[id].totalAmount
     /\ docs[id].status = "PARTIALLY_PAID" =>
           (0 < docs[id].paidAmount /\ docs[id].paidAmount < docs[id].totalAmount)

\* payment creations and deletions that have written their payment row
PaymentWrites ==
  (nextPaymentId - 2) + ((nextPaymentId - 1) - Cardinality(payments))

\* C27: once two payment requests that ran concurrently have both been
\* answered, every invoice and vendor bill has paidAmount equal to the sum
\* of its linked payments and the status that follows from that sum.
C27_ConcurrentPaymentsReconciled ==
  (inflight = <<>> /\ nreq = 2 /\ PaymentWrites = 2)
  => \A id \in PayableDocs :
        /\ docs[id].paidAmount = LinkedTotal(id)
        /\ docs[id].status = "PAID" <=> LinkedTotal(id) >= docs[id].totalAmount
        /\ docs[id].status = "PARTIALLY_PAID" <=>
              (LinkedTotal(id) > 0 /\ LinkedTotal(id) < docs[id].totalAmount)

\* C28: on the same document and payments, the routine of the payment
\* creation and the routine of the payment deletion write the same
\* paidAmount and the same status.
C28_ReconcileVariantsEquivalent ==
  Run(Store, ReconReq("POST_PAYMENT", docs[1].kind)).S.docs
    = Run(Store, ReconReq("DELETE_PAYMENT", docs[1].kind)).S.docs

\* PO-01001, BILL-01001, SO-01001, INV-01001, PAY-01001
SeedNumber(name) == [prefix |-> SeqPrefix[name], number |-> <<0, 1, 0, 0, 1>>]

\* C29: an identifier that getNextSequence returns to a creation request is
\* not the number of the seeded record of that type, and no two documents
\* of one type have the same number.
C29_NumbersDifferFromSeed ==
  [][(/\ nreq' = nreq + 1
      /\ lastReq'.op \in {"POST_DOC", "POST_PAYMENT"}
      /\ lastReq'.loc.number # NoNumber)
     => /\ lastReq'.loc.number # SeedNumber(SequenceOf(lastReq'))
        /\ \A d, e \in 1..Len(docs') :
              (d # e /\ docs'[d].kind = docs'[e].kind)
                => docs'[d].number # docs'[e].number]_vars

\* C30: a payment creation by a CUSTOMER user changes neither paidAmount
\* nor status of an invoice of another customer or of a vendor bill.
C30_CustomerPaysOwnInvoicesOnly ==
  [][(/\ nreq' = nreq + 1
      /\ lastReq'.op = "POST_PAYMENT"
      /\ lastReq'.user.role = "CUSTOMER")
     => \A id \in PayableDocs :
           (docs[id].kind = "vendor_bill" \/ docs[id].contactId # lastReq'.user.contactId)
             => /\ docs'[id].paidAmount = docs[id].paidAmount
                /\ docs'[id].status = docs[id].status]_vars

\* the amount that counts: the revised amount if there is one
EffectiveAmount(budget) ==
  IF budget.revisedSet THEN budget.revisedAmount ELSE budget.amount

\* C25: a step appends one revision, from the effective amount before to
\* the effective amount after, exactly when the effective amount of a
\* budget changes; the revisions that exist stay as they are.
C25_RevisionOnEffectiveChange ==
  [][LET changed == { id \in 1..Len(budgets) :
                        EffectiveAmount(budgets'[id])
                          # EffectiveAmount(budgets[id]) }
     IN  IF changed = {}
         THEN revisions' = revisions
         ELSE \E id \in changed :
                revisions' =
                  Append(revisions,
                         [budgetId |-> id,
                          previousAmount |-> EffectiveAmount(budgets[id]),
                          newAmount |-> EffectiveAmount(budgets'[id])])]_vars

====
